---- MODULE Spec2Model ----
(***************************************************************************)
(* Model of the web decompiler: the POST /api/decompile handler, the       *)
(* WebDecompiler pipeline it runs (analyzeHTML, trySourceMapRecovery,      *)
(* downloadAndDecompileJS / CSS, the extractors) and the in-memory job     *)
(* registry (jobStorage).                                                  *)
(*                                                                         *)
(* Texts (URLs, references, HTML, JS, CSS) are sequences of tokens, each   *)
(* token a string; Str joins a token sequence into the string it spells.   *)
(* One action is one run of the event loop: the answer to the request the  *)
(* handler is awaiting arrives and the handler runs up to its next await.  *)
(***************************************************************************)
EXTENDS Integers, Sequences, FiniteSets, TLC

VARIABLES
    storage,    \* jobStorage's Map: job id -> stored DecompilationResult, or None
    now,        \* Date.now()
    pc,         \* per submission: where its POST handler is suspended
    req,        \* per submission: the request body
    results,    \* per submission: WebDecompiler.results
    idx,        \* per submission: index of the bundle the current loop is at
    resp,       \* per submission: the response returned to the caller
    trace,      \* per submission: the fetches issued so far (kind, bundle index, ok)
    answer,     \* per submission: the answer to its latest fetch
    saves,      \* history: the registry writes so far, <<submission, job id>>
                \* (<<"delete", job id>> and <<"clear", "">> for removals)
    answers     \* history: per submission, every answer it got (SpecConc only)

vars == <<storage, now, pc, req, results, idx, resp, trace, answer, saves, answers>>

(***************************************************************************)
(* Bounds                                                                  *)
(***************************************************************************)
MaxClock == 1       \* Date.now() ranges over 0..MaxClock
MaxTags == 2        \* tags per root document in the discovery specification
MaxBundles == 2     \* tags per root document in the job specifications
MaxCssLen == 3      \* tokens per stylesheet in the stylesheet specification

Procs == {"p1", "p2"}       \* submissions (calls of POST)
None == [absent |-> TRUE]      \* get() of a job id that holds no record

(***************************************************************************)
(* Token sequences                                                         *)
(***************************************************************************)
RECURSIVE Str(_)
Str(toks) == IF toks = <<>> THEN "" ELSE toks[1] \o Str(Tail(toks))

\* Array.prototype.pop() of s.split('/'): the tokens after the last "/".
RECURSIVE LastSegment(_)
LastSegment(toks) ==
    IF toks = <<>> THEN <<>>
    ELSE IF toks[Len(toks)] = "/" THEN <<>>
    ELSE Append(LastSegment(SubSeq(toks, 1, Len(toks) - 1)), toks[Len(toks)])

startsWith(toks, t) == toks # <<>> /\ toks[1] = t

EmptyMap == [k \in {} |-> <<>>]
Put(m, k, v) == [x \in DOMAIN m \cup {k} |-> IF x = k THEN v ELSE m[x]]

(***************************************************************************)
(* Requests                                                                *)
(***************************************************************************)
Origin == "https://h.test"
RootUrl == <<Origin, "/", "app", "/">>
BadUrl == <<"h.test">>                  \* no scheme: new URL() throws
JobIds == {"j1", "j2"}

\* new URL(u) succeeds
IsURL(u) == u # <<>> /\ u[1] = Origin

\* new URL(ref, base).href for a reference that starts with "/"
ResolveURL(ref, base) ==
    IF Len(ref) >= 2 /\ ref[2] = "/"
    THEN "https:" \o Str(ref)           \* "//host/path": scheme-relative
    ELSE base[1] \o Str(ref)            \* "/path": the base's origin

(***************************************************************************)
(* Root documents: cheerio.load and the two selectors of analyzeHTML       *)
(***************************************************************************)
AttrNames == {"src=", "rel=", "href="}

Tag(name, attrs) == <<name>> \o attrs \o <<">">>
ScriptTag(ref) == Tag("<script", <<"src=">> \o ref)
InlineScript == Tag("<script", <<>>)
StyleLink(ref) == Tag("<link", <<"rel=", "stylesheet", "href=">> \o ref)
IconLink(ref) == Tag("<link", <<"rel=", "icon", "href=">> \o ref)
BareStyleLink == Tag("<link", <<"rel=", "stylesheet">>)

RECURSIVE Flatten(_)
Flatten(tags) == IF tags = <<>> THEN <<>> ELSE tags[1] \o Flatten(Tail(tags))

\* cheerio.load: the elements of the document, in document order
RECURSIVE Elements(_, _)
Elements(doc, cur) ==
    IF doc = <<>> THEN <<>>
    ELSE IF doc[1] = ">" THEN <<cur>> \o Elements(Tail(doc), <<>>)
    ELSE Elements(Tail(doc), Append(cur, doc[1]))

HasAttr(el, a) == \E i \in 1..Len(el) : el[i] = a

RECURSIVE ValueFrom(_, _)
ValueFrom(el, i) ==
    IF i > Len(el) \/ el[i] \in AttrNames THEN <<>>
    ELSE <<el[i]>> \o ValueFrom(el, i + 1)

\* $(element).attr(a)
Attr(el, a) ==
    LET i == CHOOSE k \in 1..Len(el) : el[k] = a /\ \A m \in 1..(k - 1) : el[m] # a
    IN  ValueFrom(el, i + 1)

RECURSIVE SelectSeq2(_, _)
SelectSeq2(s, keep) ==
    IF s = <<>> THEN <<>>
    ELSE (IF keep[1] THEN <<s[1]>> ELSE <<>>) \o SelectSeq2(Tail(s), Tail(keep))

\* $('script[src]')
SelectScripts(els) ==
    SelectSeq2(els, [i \in 1..Len(els) |-> els[i][1] = "<script" /\ HasAttr(els[i], "src=")])

\* $('link[rel="stylesheet"]')
SelectStylesheets(els) ==
    SelectSeq2(els, [i \in 1..Len(els) |->
        /\ els[i][1] = "<link"
        /\ HasAttr(els[i], "rel=")
        /\ Attr(els[i], "rel=") = <<"stylesheet">>])

\* the body of one .each callback: at most one BundleInfo
BundleOf(el, attr, type, placeholder, baseUrl) ==
    IF ~HasAttr(el, attr) \/ Attr(el, attr) = <<>> THEN <<>>
    ELSE LET ref == Attr(el, attr)
             fullUrl == IF startsWith(ref, "/") THEN ResolveURL(ref, baseUrl) ELSE Str(ref)
             last == Str(LastSegment(ref))
             filename == IF last = "" THEN placeholder ELSE last
         IN  <<[url |-> fullUrl, type |-> type, filename |-> filename]>>

RECURSIVE EachBundle(_, _, _, _, _)
EachBundle(els, attr, type, placeholder, baseUrl) ==
    IF els = <<>> THEN <<>>
    ELSE BundleOf(els[1], attr, type, placeholder, baseUrl)
            \o EachBundle(Tail(els), attr, type, placeholder, baseUrl)

\* the bundles array analyzeHTML builds from the parsed document
DiscoverBundles(doc, baseUrl) ==
    LET els == Elements(doc, <<>>)
    IN  EachBundle(SelectScripts(els), "src=", "js", "script.js", baseUrl)
            \o EachBundle(SelectStylesheets(els), "href=", "css", "style.css", baseUrl)

(***************************************************************************)
(* Bundle bodies.  axios hands a body that is valid JSON over as the       *)
(* parsed value instead of the text: JsonObject stands for such a value.   *)
(***************************************************************************)
JsonObject == <<"[object Object]">>
IsString(data) == data # JsonObject

WhiteSpace == {" ", "\n"}
IsWs(t) == t \in WhiteSpace

RECURSIVE StripWs(_)
StripWs(toks) ==
    IF toks = <<>> THEN <<>>
    ELSE (IF IsWs(toks[1]) THEN <<>> ELSE <<toks[1]>>) \o StripWs(Tail(toks))

(***************************************************************************)
(* beautifyCSS: four replacements, the blank-line collapse, trim           *)
(***************************************************************************)
RECURSIVE ReplaceEach(_, _)
ReplaceEach(toks, sub) ==
    IF toks = <<>> THEN <<>>
    ELSE (IF toks[1] \in DOMAIN sub THEN sub[toks[1]] ELSE <<toks[1]>>)
            \o ReplaceEach(Tail(toks), sub)

CssReplacements ==
    [t \in {"{", "}", ";", ","} |->
        CASE t = "{" -> <<" ", "{", "\n", " ", " ">>
          [] t = "}" -> <<"\n", "}", "\n">>
          [] t = ";" -> <<";", "\n", " ", " ">>
          [] t = "," -> <<",", "\n", " ", " ">>]

\* length of the run of white space that starts at position i
RECURSIVE WsRun(_, _)
WsRun(toks, i) ==
    IF i > Len(toks) \/ ~IsWs(toks[i]) THEN 0 ELSE 1 + WsRun(toks, i + 1)

\* /\n\s*\n/g -> '\n': from a newline, the match runs to the last newline of
\* the white-space run the newline is in
RECURSIVE CollapseBlankLines(_, _)
CollapseBlankLines(toks, i) ==
    IF i > Len(toks) THEN <<>>
    ELSE IF toks[i] # "\n" THEN <<toks[i]>> \o CollapseBlankLines(toks, i + 1)
    ELSE LET n == WsRun(toks, i)
             nl == {k \in i..(i + n - 1) : toks[k] = "\n"}
             last == CHOOSE k \in nl : \A m \in nl : m <= k
         IN  <<"\n">> \o CollapseBlankLines(toks, last + 1)

RECURSIVE TrimStart(_)
TrimStart(toks) ==
    IF toks # <<>> /\ IsWs(toks[1]) THEN TrimStart(Tail(toks)) ELSE toks

RECURSIVE TrimEnd(_)
TrimEnd(toks) ==
    IF toks # <<>> /\ IsWs(toks[Len(toks)])
    THEN TrimEnd(SubSeq(toks, 1, Len(toks) - 1)) ELSE toks

\* a beautifier without the blank-line collapse
beautifyCSSKeepsBlankLines(css) ==
    TrimEnd(TrimStart(ReplaceEach(css, CssReplacements)))

beautifyCSS(css) ==
    TrimEnd(TrimStart(CollapseBlankLines(ReplaceEach(css, CssReplacements), 1)))

(***************************************************************************)
(* js-beautify as configured in downloadAndDecompileJS: white space is     *)
(* laid out anew (2-space indent, collapsed braces, trailing newline).     *)
(* It raises on a body that is not a string.                               *)
(***************************************************************************)
Punct == {"(", ")", "{", "}", ";", ",", ".", "=", "=>", "'", "<", ">", "/"}
IsWord(t) == ~IsWs(t) /\ t \notin Punct

RECURSIVE Indent(_)
Indent(depth) == IF depth <= 0 THEN <<>> ELSE <<" ", " ">> \o Indent(depth - 1)

\* the white space js-beautify puts between prev and t at nesting depth d
Separator(prev, t, d) ==
    IF prev = "" THEN <<>>
    ELSE IF t = "}" THEN <<"\n">> \o Indent(d - 1)
    ELSE IF prev \in {"{", ";", "}"} THEN <<"\n">> \o Indent(d)
    ELSE IF t = "{" THEN <<" ">>
    ELSE IF t \in {"=", "=>"} \/ prev \in {"=", "=>", ","} THEN <<" ">>
    ELSE IF IsWord(prev) /\ IsWord(t) THEN <<" ">>
    ELSE IF prev = ")" /\ IsWord(t) THEN <<" ">>
    ELSE IF prev = "return" /\ t = "<" THEN <<" ">>
    ELSE <<>>

RECURSIVE Layout(_, _, _)
Layout(toks, prev, d) ==
    IF toks = <<>> THEN <<"\n">>
    ELSE LET t == toks[1]
             d2 == IF t = "{" THEN d + 1 ELSE IF t = "}" THEN d - 1 ELSE d
         IN  Separator(prev, t, d) \o <<t>> \o Layout(Tail(toks), t, d2)

beautifyThrows(js) == ~IsString(js)
beautify(js) == Layout(StripWs(js), "", 0)

(***************************************************************************)
(* Regular expressions over tokens: a pattern is a list of alternatives    *)
(* (an optional group gives two, the one with the group first), each a     *)
(* list of items and the index of the item that is capture group 1.        *)
(* Matching is leftmost, greedy, backtracking, as RegExp.prototype.exec.   *)
(***************************************************************************)
UpperIdents == {"Header", "App"}
LowerIdents == {"header", "x", "jsx", "react", "div"}
Keywords == {"function", "const", "class", "extends", "render", "return", "export",
             "default", "module", "exports", "import", "from", "require", "var", "let"}
Declarators == {"function", "class", "const", "let", "var"}
NoFromLetter == {" ", "\n", "x", "{", "}", ",", "div"}   \* tokens without f, r, o, m

Lit(t) == [k |-> "one", c |-> "lit", t |-> t]
One(c) == [k |-> "one", c |-> c, t |-> ""]
Star(c) == [k |-> "star", c |-> c, t |-> ""]
Plus(c) == [k |-> "plus", c |-> c, t |-> ""]
StarNot(t) == [k |-> "star", c |-> "not", t |-> t]
PlusNot(t) == [k |-> "plus", c |-> "not", t |-> t]

InClass(tok, it) ==
    CASE it.c = "lit" -> tok = it.t
      [] it.c = "not" -> tok # it.t
      [] it.c = "ws" -> IsWs(tok)
      [] it.c = "upper" -> tok \in UpperIdents                      \* [A-Z][a-zA-Z0-9]*
      [] it.c = "ident" -> tok \in UpperIdents \cup LowerIdents \cup Keywords
      [] it.c = "js" -> tok \in {"js", "jsx"}                        \* contains "js"
      [] it.c = "decl" -> tok \in Declarators
      [] it.c = "notfrom" -> tok \in NoFromLetter
      [] it.c = "notquote" -> tok # "'"

RECURSIVE ClassRun(_, _, _)
ClassRun(text, pos, it) ==
    IF pos > Len(text) \/ ~InClass(text[pos], it) THEN 0
    ELSE 1 + ClassRun(text, pos + 1, it)

\* the positions at which items i.. start, then the end of the match; <<>> if none
RECURSIVE MatchFrom(_, _, _, _)
RECURSIVE Greedy(_, _, _, _, _, _)
MatchFrom(items, i, text, pos) ==
    IF i > Len(items) THEN <<pos>>
    ELSE IF items[i].k = "one"
    THEN IF pos <= Len(text) /\ InClass(text[pos], items[i])
         THEN LET r == MatchFrom(items, i + 1, text, pos + 1)
              IN  IF r = <<>> THEN <<>> ELSE <<pos>> \o r
         ELSE <<>>
    ELSE Greedy(items, i, text, pos, ClassRun(text, pos, items[i]),
                IF items[i].k = "plus" THEN 1 ELSE 0)
Greedy(items, i, text, pos, n, min) ==
    IF n < min THEN <<>>
    ELSE LET r == MatchFrom(items, i + 1, text, pos + n)
         IN  IF r # <<>> THEN <<pos>> \o r
             ELSE Greedy(items, i, text, pos, n - 1, min)

\* the match of the first alternative that matches at pos: [1] and [0] of exec
RECURSIVE MatchAt(_, _, _)
MatchAt(alts, text, pos) ==
    IF alts = <<>> THEN [found |-> FALSE, end |-> pos, group |-> <<>>, all |-> <<>>]
    ELSE LET b == MatchFrom(alts[1].items, 1, text, pos)
             c == alts[1].cap
         IN  IF b = <<>> THEN MatchAt(Tail(alts), text, pos)
             ELSE [found |-> TRUE, end |-> b[Len(b)],
                   group |-> SubSeq(text, b[c], b[c + 1] - 1),
                   all |-> SubSeq(text, pos, b[Len(b)] - 1)]

\* the loop  match = pattern.exec(text); while (match !== null) ...  of a /g pattern
RECURSIVE ExecAll(_, _, _)
ExecAll(alts, text, from) ==
    IF from > Len(text) THEN <<>>
    ELSE LET m == MatchAt(alts, text, from)
         IN  IF m.found THEN <<m>> \o ExecAll(alts, text, m.end)
             ELSE ExecAll(alts, text, from + 1)

ComponentPatterns == <<
    \* function\s+([A-Z][a-zA-Z0-9]*)\s*\([^)]*\)\s*\{[^}]*return\s+[^}]*jsx?[^}]*\}
    << [cap |-> 3, items |-> <<Lit("function"), Plus("ws"), One("upper"), Star("ws"),
         Lit("("), StarNot(")"), Lit(")"), Star("ws"), Lit("{"), StarNot("}"),
         Lit("return"), Plus("ws"), StarNot("}"), One("js"), StarNot("}"), Lit("}")>>] >>,
    \* const\s+([A-Z][a-zA-Z0-9]*)\s*=\s*\([^)]*\)\s*=>\s*\{[^}]*return[^}]*jsx?[^}]*\}
    << [cap |-> 3, items |-> <<Lit("const"), Plus("ws"), One("upper"), Star("ws"),
         Lit("="), Star("ws"), Lit("("), StarNot(")"), Lit(")"), Star("ws"), Lit("=>"),
         Star("ws"), Lit("{"), StarNot("}"), Lit("return"), StarNot("}"), One("js"),
         StarNot("}"), Lit("}")>>] >>,
    \* class\s+([A-Z][a-zA-Z0-9]*)\s+extends\s+[^{]*\{[^}]*render\s*\(\s*\)\s*\{[^}]*return[^}]*\}
    << [cap |-> 3, items |-> <<Lit("class"), Plus("ws"), One("upper"), Plus("ws"),
         Lit("extends"), Plus("ws"), StarNot("{"), Lit("{"), StarNot("}"), Lit("render"),
         Star("ws"), Lit("("), Star("ws"), Lit(")"), Star("ws"), Lit("{"), StarNot("}"),
         Lit("return"), StarNot("}"), Lit("}")>>] >> >>

ModulePatterns == <<
    \* export\s+(?:default\s+)?(?:function|class|const|let|var)\s+([a-zA-Z_$][a-zA-Z0-9_$]*)
    << [cap |-> 7, items |-> <<Lit("export"), Plus("ws"), Lit("default"), Plus("ws"),
         One("decl"), Plus("ws"), One("ident")>>],
       [cap |-> 5, items |-> <<Lit("export"), Plus("ws"), One("decl"), Plus("ws"),
         One("ident")>>] >>,
    \* module\.exports\s*=\s*([^;]+)
    << [cap |-> 7, items |-> <<Lit("module"), Lit("."), Lit("exports"), Star("ws"),
         Lit("="), Star("ws"), PlusNot(";")>>] >>,
    \* exports\.([a-zA-Z_$][a-zA-Z0-9_$]*)\s*=
    << [cap |-> 3, items |-> <<Lit("exports"), Lit("."), One("ident"), Star("ws"),
         Lit("=")>>] >>,
    \* import\s+(?:[^from]+from\s+)?["']([^"']+)["']
    << [cap |-> 7, items |-> <<Lit("import"), Plus("ws"), Plus("notfrom"), Lit("from"),
         Plus("ws"), Lit("'"), Plus("notquote"), Lit("'")>>],
       [cap |-> 4, items |-> <<Lit("import"), Plus("ws"), Lit("'"), Plus("notquote"),
         Lit("'")>>] >>,
    \* require\(["']([^"']+)["']\)
    << [cap |-> 4, items |-> <<Lit("require"), Lit("("), Lit("'"), Plus("notquote"),
         Lit("'"), Lit(")")>>] >> >>

\* every match of every pattern, pattern by pattern
RECURSIVE AllMatches(_, _)
AllMatches(patterns, text) ==
    IF patterns = <<>> THEN <<>>
    ELSE ExecAll(patterns[1], text, 1) \o AllMatches(Tail(patterns), text)

(***************************************************************************)
(* WebDecompiler: the result record and the steps that mutate it           *)
(***************************************************************************)
\* constructor
WebDecompiler(url, jobId, t) ==
    [jobId |-> jobId, url |-> url, timestamp |-> t,
     bundles |-> <<>>, components |-> <<>>, modules |-> <<>>,
     originalFiles |-> EmptyMap, beautifiedFiles |-> EmptyMap,
     analysis |-> [jsFiles |-> 0, cssFiles |-> 0, components |-> 0, modules |-> 0]]

\* cheerio.load raises on data that is no markup text
cheerioThrows(data) == ~IsString(data)

\* analyzeHTML once the root document has arrived and parsed
analyzeHTML(r, data) ==
    [r EXCEPT !.originalFiles = Put(@, "index.html", data),
              !.bundles = DiscoverBundles(data, r.url)]

RECURSIVE PushComponents(_, _, _)
PushComponents(list, matches, sourceFile) ==
    IF matches = <<>> THEN list
    ELSE LET m == matches[1]
             keep == m.group # <<>> /\ m.group[1] \in UpperIdents
         IN  PushComponents(
                IF keep THEN Append(list, [name |-> Str(m.group), code |-> m.all,
                                           source |-> sourceFile])
                ELSE list, Tail(matches), sourceFile)

\* a counter bumped once per call instead of set to the list's length
extractComponentsCountsCalls(r, jsContent, sourceFile) ==
    LET list == PushComponents(r.components, AllMatches(ComponentPatterns, jsContent),
                               sourceFile)
    IN  [r EXCEPT !.components = list, !.analysis.components = @ + 1]

extractReactComponents(r, jsContent, sourceFile) ==
    LET list == PushComponents(r.components, AllMatches(ComponentPatterns, jsContent),
                               sourceFile)
    IN  [r EXCEPT !.components = list, !.analysis.components = Len(list)]

RECURSIVE PushModules(_, _, _)
PushModules(list, matches, sourceFile) ==
    IF matches = <<>> THEN list
    ELSE LET m == matches[1]
         IN  PushModules(
                IF m.group # <<>> THEN Append(list, [identifier |-> Str(m.group),
                                                      match |-> m.all, source |-> sourceFile])
                ELSE list, Tail(matches), sourceFile)

\* a module counter that counts the files scanned
extractModulesCountsFiles(r, jsContent, sourceFile) ==
    LET list == PushModules(r.modules, AllMatches(ModulePatterns, jsContent), sourceFile)
    IN  [r EXCEPT !.modules = list, !.analysis.modules = @ + 1]

extractModules(r, jsContent, sourceFile) ==
    LET list == PushModules(r.modules, AllMatches(ModulePatterns, jsContent), sourceFile)
    IN  [r EXCEPT !.modules = list, !.analysis.modules = Len(list)]

\* a fallback that stores the original under the beautified_ name
downloadJSFallbackAsBeautified(r, bundle, response) ==
    IF ~response.ok THEN r
    ELSE LET jsContent == response.data
             r1 == [r EXCEPT !.originalFiles = Put(@, bundle.filename, jsContent)]
         IN  IF beautifyThrows(jsContent)
             THEN [r1 EXCEPT
                      !.beautifiedFiles = Put(@, "beautified_" \o bundle.filename, jsContent)]
             ELSE LET beautifiedJs == beautify(jsContent)
                      r2 == [r1 EXCEPT
                                !.beautifiedFiles =
                                    Put(@, "beautified_" \o bundle.filename, beautifiedJs),
                                !.analysis.jsFiles = @ + 1]
                  IN  extractModules(
                          extractReactComponents(r2, beautifiedJs, bundle.filename),
                          beautifiedJs, bundle.filename)

\* a failed retrieval that still records the bundle, with an empty body
downloadJSRecordsFailure(r, bundle, response) ==
    IF ~response.ok THEN [r EXCEPT !.originalFiles = Put(@, bundle.filename, <<>>)]
    ELSE r

\* downloadAndDecompileJS: response.ok is FALSE when axios.get rejects
downloadAndDecompileJS(r, bundle, response) ==
    IF ~response.ok THEN r
    ELSE LET jsContent == response.data
             r1 == [r EXCEPT !.originalFiles = Put(@, bundle.filename, jsContent)]
         IN  IF beautifyThrows(jsContent)
             THEN [r1 EXCEPT !.beautifiedFiles = Put(@, "raw_" \o bundle.filename, jsContent)]
             ELSE LET beautifiedJs == beautify(jsContent)
                      r2 == [r1 EXCEPT
                                !.beautifiedFiles =
                                    Put(@, "beautified_" \o bundle.filename, beautifiedJs),
                                !.analysis.jsFiles = @ + 1]
                  IN  extractModules(
                          extractReactComponents(r2, beautifiedJs, bundle.filename),
                          beautifiedJs, bundle.filename)

\* a stylesheet step that keeps no copy of the original text
downloadCSSKeepsNoOriginal(r, bundle, response) ==
    IF ~response.ok \/ ~IsString(response.data) THEN r
    ELSE [r EXCEPT
            !.beautifiedFiles =
                Put(@, "beautified_" \o bundle.filename, beautifyCSS(response.data)),
            !.analysis.cssFiles = @ + 1]

\* downloadAndDecompileCSS: css.replace raises on data that is no string, after
\* originalFiles was written
downloadAndDecompileCSS(r, bundle, response) ==
    IF ~response.ok THEN r
    ELSE LET cssContent == response.data
             r1 == [r EXCEPT !.originalFiles = Put(@, bundle.filename, cssContent)]
         IN  IF ~IsString(cssContent) THEN r1
             ELSE [r1 EXCEPT
                      !.beautifiedFiles =
                          Put(@, "beautified_" \o bundle.filename, beautifyCSS(cssContent)),
                      !.analysis.cssFiles = @ + 1]

(***************************************************************************)
(* Source maps                                                             *)
(***************************************************************************)
\* String.prototype.replace(pattern, ''): the first occurrence only
RECURSIVE RemoveFirst(_, _)
RemoveFirst(toks, pat) ==
    IF Len(toks) < Len(pat) THEN toks
    ELSE IF SubSeq(toks, 1, Len(pat)) = pat THEN SubSeq(toks, Len(pat) + 1, Len(toks))
    ELSE <<toks[1]>> \o RemoveFirst(Tail(toks), pat)

CleanPath(sourcePath) ==
    RemoveFirst(RemoveFirst(RemoveFirst(sourcePath, <<"webpack:", "/", "/">>),
                            <<".", ".", "/">>), <<".", "/">>)

RecoveryHeader(originalUrl, sourcePath) ==
    <<"// Recovered from source map: ", originalUrl, "\n", "// Original path: ",
      Str(sourcePath), "\n", "\n">>

RECURSIVE ExtractSources(_, _, _, _)
ExtractSources(files, sourceMap, originalUrl, i) ==
    IF i > Len(sourceMap.sources) THEN files
    ELSE LET sourcePath == sourceMap.sources[i]
             content == IF i <= Len(sourceMap.sourcesContent)
                        THEN sourceMap.sourcesContent[i] ELSE <<>>
             last == Str(LastSegment(CleanPath(sourcePath)))
             filename == "source_" \o (IF last = "" THEN "unknown.js" ELSE last)
         IN  ExtractSources(
                IF content # <<>> /\ sourcePath # <<>>
                THEN Put(files, filename, RecoveryHeader(originalUrl, sourcePath) \o content)
                ELSE files, sourceMap, originalUrl, i + 1)

extractFromSourceMap(r, sourceMap, originalUrl) ==
    IF sourceMap.hasSources /\ sourceMap.hasContent
    THEN [r EXCEPT !.originalFiles = ExtractSources(@, sourceMap, originalUrl, 1)]
    ELSE r

AppSource == <<"export", " ", "default", " ", "App">>
ValidMap ==
    [hasSources |-> TRUE, hasContent |-> TRUE,
     sources |-> << <<".", "/", "src", "/", "App.js">> >>,
     sourcesContent |-> <<AppSource>>]
NoContentMap ==
    [hasSources |-> TRUE, hasContent |-> FALSE,
     sources |-> << <<".", "/", "src", "/", "App.js">> >>, sourcesContent |-> <<>>]
ParentMap ==
    [hasSources |-> TRUE, hasContent |-> TRUE,
     sources |-> << <<".", ".", "/", ".", ".", "/", "x.js">> >>,
     sourcesContent |-> << <<"var", " ", "x">> >>]
\* texts that spell JSON, and what JSON.parse makes of them
ValidMapText == <<"{", "sources:[./src/App.js]", ",", "sourcesContent:[...]", "}">>
NoContentMapText == <<"{", "sources:[./src/App.js]", "}">>
ParentMapText == <<"{", "sources:[../../x.js]", ",", "sourcesContent:[...]", "}">>
NotFoundPage == <<"<html", ">", "Not Found">>
JsonValues ==
    (ValidMapText :> ValidMap) @@ (NoContentMapText :> NoContentMap)
        @@ (ParentMapText :> ParentMap)

\* JSON.parse(response.data) raises unless the data is a string that spells JSON;
\* a map that axios already parsed is no string
jsonParseThrows(data) == ~IsString(data) \/ data \notin DOMAIN JsonValues
jsonParse(data) == JsonValues[data]

\* a recovery that parses whatever arrived, whatever the status
trySourceMapRecoveryIgnoresStatus(r, bundle, response) ==
    IF ~response.ok THEN r
    ELSE IF jsonParseThrows(response.data) THEN r
    ELSE extractFromSourceMap(r, jsonParse(response.data), bundle.url)

\* the body of the loop of trySourceMapRecovery for one JS bundle
trySourceMapRecovery(r, bundle, response) ==
    IF ~response.ok THEN r
    ELSE IF response.status # 200 THEN r
    ELSE IF jsonParseThrows(response.data) THEN r
    ELSE extractFromSourceMap(r, jsonParse(response.data), bundle.url)

\* the index of the first JS bundle at or after i, or 0
NextJs(bundles, i) ==
    LET js == {k \in i..Len(bundles) : bundles[k].type = "js"}
    IN  IF js = {} THEN 0 ELSE CHOOSE k \in js : \A m \in js : k <= m

(***************************************************************************)
(* Inputs: request bodies, root documents, fetch answers                   *)
(***************************************************************************)
RECURSIVE SeqsUpTo(_, _)
SeqsUpTo(S, n) ==
    IF n = 0 THEN {<<>>}
    ELSE LET shorter == SeqsUpTo(S, n - 1)
         IN  shorter \cup {Append(q, x) : q \in shorter, x \in S}

Failed == [ok |-> FALSE, status |-> 0, data |-> <<>>]
Ok(status, data) == [ok |-> TRUE, status |-> status, data |-> data]

\* request.json(): json is FALSE for a body that is no JSON
Bodies ==
    {[json |-> j, url |-> u, jobId |-> id] :
        j \in {TRUE}, u \in {RootUrl, BadUrl, <<>>}, id \in JobIds \cup {""}}
        \cup {[json |-> FALSE, url |-> <<>>, jobId |-> ""]}
GoodBodies == {[json |-> TRUE, url |-> RootUrl, jobId |-> id] : id \in JobIds}

RefA == <<"/", "a.js">>
RefS == <<"/", "s.css">>
JobTags == {ScriptTag(RefA), StyleLink(RefS)}
JobDocs == {Flatten(tags) : tags \in SeqsUpTo(JobTags, MaxBundles)}

DiscoveryTags ==
    {ScriptTag(RefA), ScriptTag(<<"b.js">>), ScriptTag(<<"/", "d", "/">>), ScriptTag(<<>>),
     ScriptTag(<<"..", "/", "b.js">>), ScriptTag(<<"?", "v=1">>), InlineScript, StyleLink(RefS), StyleLink(<<>>), BareStyleLink, IconLink(<<"/", "i.ico">>)}
DiscoveryDocs == {Flatten(tags) : tags \in SeqsUpTo(DiscoveryTags, MaxTags)}

JsPlain == <<"var", " ", "x", "=", "x", ";">>
JsApp ==
    <<"function", " ", "Header", "(", ")", "{", "return", " ", "jsx", "(", "x", ")", "}",
      "module", ".", "exports", "=", "Header", ";">>
CssText == <<"div", ",", "x", "{", "x", ";", "}">>

\* function <name>() { return <div>x</div>; }
JsxFunction(name) ==
    <<"function", " ", name, "(", ")", "{", "return", " ", "<", "div", ">", "x",
      "<", "/", "div", ">", ";", "}">>
\* function header() { return jsx(x) }
JsLowerCall ==
    <<"function", " ", "header", "(", ")", "{", "return", " ", "jsx", "(", "x", ")", "}">>
\* const App = () => { return jsx(x) }
JsArrow ==
    <<"const", " ", "App", "=", "(", ")", "=>", "{", "return", " ", "jsx", "(", "x", ")", "}">>
\* class App extends x { render() { return x } }
JsClass ==
    <<"class", " ", "App", " ", "extends", " ", "x", "{", "render", "(", ")", "{",
      "return", " ", "x", "}", "}">>


RootAnswers == {Failed, Ok(200, JsonObject)} \cup {Ok(200, d) : d \in JobDocs}
MapAnswers ==
    {Failed, Ok(204, ValidMapText),
     Ok(200, JsonObject),           \* a map served as JSON: axios parsed it
     Ok(200, NotFoundPage),         \* text that is no JSON
     Ok(200, NoContentMapText),
     Ok(200, ValidMapText)}

\* the source map a server sent, by the data axios makes of it: the parsed
\* value for a map sent as JSON text, the text for a map sent as a JSON string
MapServed == JsonValues @@ (JsonObject :> ValidMap)
JsAnswers == {Failed, Ok(200, JsPlain), Ok(200, JsApp), Ok(200, JsonObject)}
CssAnswers == {Failed, Ok(200, CssText), Ok(200, JsonObject)}

(***************************************************************************)
(* jobStorage                                                              *)
(***************************************************************************)
\* a registry with a single slot: every key holds the record saved last
saveSingleSlot(store, jobId, result, t) ==
    [j \in DOMAIN store |-> [result EXCEPT !.timestamp = t]]

\* a save that stores the record as it was handed over
saveKeepsTimestamp(store, jobId, result, t) ==
    [store EXCEPT ![jobId] = result]

save(store, jobId, result, t) ==
    [store EXCEPT ![jobId] = [result EXCEPT !.timestamp = t]]

\* storage.delete(jobId); storage.clear()
delete(store, jobId) == [store EXCEPT ![jobId] = None]
clear(store) == [j \in DOMAIN store |-> None]

get(store, jobId) == IF jobId \in DOMAIN store THEN store[jobId] ELSE None

(***************************************************************************)
(* GET /api/files/[jobId]: the listing, and the content of one file        *)
(***************************************************************************)
\* if (value): the empty string is falsy, every other text and object truthy
Truthy(value) == value # <<>>

\* the files array of the listing branch, as the set of its entries
Listing(result) ==
    {[name |-> k, category |-> "original", content |-> result.originalFiles[k]] :
        k \in DOMAIN result.originalFiles}
    \cup {[name |-> k, category |-> "beautified", content |-> result.beautifiedFiles[k]] :
        k \in DOMAIN result.beautifiedFiles}
    \cup {[name |-> result.components[i].name \o "_" \o ToString(i - 1) \o ".jsx",
           category |-> "components", content |-> result.components[i].code] :
        i \in 1..Len(result.components)}

\* the answer to ?file=<fileName> for a non-empty fileName
FileContent(store, jobId, fileName) ==
    LET result == get(store, jobId)
    IN  IF result = None THEN [status |-> 404, error |-> "Job not found"]
        ELSE IF fileName \in DOMAIN result.originalFiles
                /\ Truthy(result.originalFiles[fileName])
        THEN [status |-> 200, name |-> fileName, category |-> "original",
              content |-> result.originalFiles[fileName]]
        ELSE IF fileName \in DOMAIN result.beautifiedFiles
                /\ Truthy(result.beautifiedFiles[fileName])
        THEN [status |-> 200, name |-> fileName, category |-> "beautified",
              content |-> result.beautifiedFiles[fileName]]
        ELSE [status |-> 404, error |-> "File not found"]

(***************************************************************************)
(* The POST handler                                                        *)
(***************************************************************************)
Fetch(kind, i, response) == [kind |-> kind, idx |-> i, ok |-> response.ok]
Fetched(p, kind, i, response) ==
    /\ trace' = [trace EXCEPT ![p] = Append(@, Fetch(kind, i, response))]
    /\ answer' = [answer EXCEPT ![p] = response]
NoResponse == [status |-> 0, error |-> "", details |-> ""]

Init ==
    /\ storage = [j \in JobIds |-> None]
    /\ now = 0
    /\ pc = [p \in Procs |-> "idle"]
    /\ req = [p \in Procs |-> [json |-> FALSE, url |-> <<>>, jobId |-> ""]]
    /\ results = [p \in Procs |-> WebDecompiler(<<>>, "", 0)]
    /\ idx = [p \in Procs |-> 0]
    /\ resp = [p \in Procs |-> NoResponse]
    /\ trace = [p \in Procs |-> <<>>]
    /\ answer = [p \in Procs |-> Failed]
    /\ saves = <<>>
    /\ answers = [p \in Procs |-> <<>>]

Respond(p, status, error, details) ==
    /\ resp' = [resp EXCEPT ![p] = [status |-> status, error |-> error, details |-> details]]
    /\ pc' = [pc EXCEPT ![p] = "responded"]

\* a catch block that stores whatever the decompiler had gathered so far
PostCatchSavesPartial(p, details) ==
    /\ Respond(p, 500, "Decompilation failed", details)
    /\ IF results[p].jobId \in JobIds
       THEN /\ storage' = save(storage, results[p].jobId, results[p], now)
            /\ saves' = Append(saves, <<p, results[p].jobId>>)
       ELSE UNCHANGED <<storage, saves>>

\* the catch block of POST: status 500, the registry untouched
PostCatch(p, details) ==
    /\ Respond(p, 500, "Decompilation failed", details)
    /\ UNCHANGED <<storage, saves>>

\* a handler that checks the fields are present but never parses the URL
PostSkipsUrlCheck(p, body) ==
    /\ pc[p] = "idle"
    /\ req' = [req EXCEPT ![p] = body]
    /\ UNCHANGED <<now, idx, trace, answer>>
    /\ IF ~body.json
       THEN PostCatch(p, "Unknown error") /\ UNCHANGED results
       ELSE IF body.url = <<>> \/ body.jobId = ""
       THEN /\ Respond(p, 400, "URL and jobId are required", "")
            /\ UNCHANGED <<results, storage, saves>>
       ELSE /\ results' = [results EXCEPT ![p] = WebDecompiler(body.url, body.jobId, now)]
            /\ pc' = [pc EXCEPT ![p] = "analyzeHTML"]
            /\ UNCHANGED <<resp, storage, saves>>

\* POST up to the first fetch: parse and validate the body, construct the decompiler
Post(p, body) ==
    /\ pc[p] = "idle"
    /\ req' = [req EXCEPT ![p] = body]
    /\ UNCHANGED <<now, idx, trace, answer>>
    /\ IF ~body.json
       THEN PostCatch(p, "Unknown error") /\ UNCHANGED results
       ELSE IF body.url = <<>> \/ body.jobId = ""
       THEN /\ Respond(p, 400, "URL and jobId are required", "")
            /\ UNCHANGED <<results, storage, saves>>
       ELSE IF ~IsURL(body.url)
       THEN /\ Respond(p, 400, "Invalid URL provided", "")
            /\ UNCHANGED <<results, storage, saves>>
       ELSE /\ results' = [results EXCEPT ![p] = WebDecompiler(body.url, body.jobId, now)]
            /\ pc' = [pc EXCEPT ![p] = "analyzeHTML"]
            /\ UNCHANGED <<resp, storage, saves>>

\* the root document's fetch answers: analyzeHTML and the check for no bundles
RootFetch(p, response) ==
    /\ pc[p] = "analyzeHTML"
    /\ Fetched(p, "root", 0, response)
    /\ UNCHANGED <<now, req>>
    /\ IF ~response.ok \/ cheerioThrows(response.data)
       THEN PostCatch(p, "Failed to analyze HTML structure") /\ UNCHANGED <<results, idx>>
       ELSE LET r == analyzeHTML(results[p], response.data)
                js == NextJs(r.bundles, 1)
            IN  /\ results' = [results EXCEPT ![p] = r]
                /\ IF Len(r.bundles) = 0
                   THEN PostCatch(p, "No bundles found to decompile") /\ UNCHANGED idx
                   ELSE /\ pc' = [pc EXCEPT ![p] =
                                    IF js = 0 THEN "processBundles" ELSE "sourceMap"]
                        /\ idx' = [idx EXCEPT ![p] = IF js = 0 THEN 1 ELSE js]
                        /\ UNCHANGED <<resp, storage, saves>>

\* a source-map loop without its try/catch: a rejected fetch fails the job
MapFetchRethrows(p, response) ==
    /\ pc[p] = "sourceMap"
    /\ Fetched(p, "map", idx[p], response)
    /\ UNCHANGED <<now, req>>
    /\ IF ~response.ok
       THEN PostCatch(p, "Request failed") /\ UNCHANGED <<results, idx>>
       ELSE LET bundle == results[p].bundles[idx[p]]
                js == NextJs(results[p].bundles, idx[p] + 1)
            IN  /\ results' = [results EXCEPT ![p] = trySourceMapRecovery(@, bundle, response)]
                /\ pc' = [pc EXCEPT ![p] = IF js = 0 THEN "processBundles" ELSE "sourceMap"]
                /\ idx' = [idx EXCEPT ![p] = IF js = 0 THEN 1 ELSE js]
                /\ UNCHANGED <<resp, storage, saves>>

\* the .map fetch of the JS bundle at idx answers
MapFetch(p, response) ==
    /\ pc[p] = "sourceMap"
    /\ LET bundle == results[p].bundles[idx[p]]
           js == NextJs(results[p].bundles, idx[p] + 1)
       IN  /\ Fetched(p, "map", idx[p], response)
           /\ results' = [results EXCEPT ![p] = trySourceMapRecovery(@, bundle, response)]
           /\ pc' = [pc EXCEPT ![p] = IF js = 0 THEN "processBundles" ELSE "sourceMap"]
           /\ idx' = [idx EXCEPT ![p] = IF js = 0 THEN 1 ELSE js]
    /\ UNCHANGED <<now, req, resp, storage, saves>>

\* a loop that returns after the first bundle
BodyFetchReturnsEarly(p, response) ==
    /\ pc[p] = "processBundles"
    /\ LET bundle == results[p].bundles[idx[p]]
       IN  /\ Fetched(p, "body", idx[p], response)
           /\ results' = [results EXCEPT ![p] =
                            IF bundle.type = "js"
                            THEN downloadAndDecompileJS(@, bundle, response)
                            ELSE downloadAndDecompileCSS(@, bundle, response)]
           /\ pc' = [pc EXCEPT ![p] = "save"]
           /\ UNCHANGED idx
    /\ UNCHANGED <<now, req, resp, storage, saves>>

\* a loop that asks once more for a body whose fetch failed
BodyFetchRetriesOnce(p, response) ==
    /\ pc[p] = "processBundles"
    /\ LET bundle == results[p].bundles[idx[p]]
           last == idx[p] = Len(results[p].bundles)
           prev == trace[p][Len(trace[p])]
           retry == ~response.ok /\ ~(prev.kind = "body" /\ prev.idx = idx[p])
       IN  /\ Fetched(p, "body", idx[p], response)
           /\ results' = [results EXCEPT ![p] =
                            IF bundle.type = "js"
                            THEN downloadAndDecompileJS(@, bundle, response)
                            ELSE downloadAndDecompileCSS(@, bundle, response)]
           /\ pc' = [pc EXCEPT ![p] = IF last /\ ~retry THEN "save" ELSE "processBundles"]
           /\ idx' = [idx EXCEPT ![p] = IF last \/ retry THEN @ ELSE @ + 1]
    /\ UNCHANGED <<now, req, resp, storage, saves>>

\* the body fetch of the bundle at idx answers
BodyFetch(p, response) ==
    /\ pc[p] = "processBundles"
    /\ LET bundle == results[p].bundles[idx[p]]
           last == idx[p] = Len(results[p].bundles)
       IN  /\ Fetched(p, "body", idx[p], response)
           /\ results' = [results EXCEPT ![p] =
                            IF bundle.type = "js"
                            THEN downloadAndDecompileJS(@, bundle, response)
                            ELSE downloadAndDecompileCSS(@, bundle, response)]
           /\ pc' = [pc EXCEPT ![p] = IF last THEN "save" ELSE "processBundles"]
           /\ idx' = [idx EXCEPT ![p] = IF last THEN @ ELSE @ + 1]
    /\ UNCHANGED <<now, req, resp, storage, saves>>

\* runFullDecompilation has returned: jobStorage.save and the success response
Save(p) ==
    /\ pc[p] = "save"
    /\ storage' = save(storage, req[p].jobId, results[p], now)
    /\ saves' = Append(saves, <<p, req[p].jobId>>)
    /\ Respond(p, 200, "", "")
    /\ UNCHANGED <<now, req, results, idx, trace, answer>>

Tick ==
    /\ now < MaxClock
    /\ now' = now + 1
    /\ UNCHANGED <<storage, pc, req, results, idx, resp, trace, answer, saves>>

BodyAnswers(p) ==
    IF pc[p] = "processBundles" /\ results[p].bundles[idx[p]].type = "css"
    THEN CssAnswers ELSE JsAnswers

\* one submission, every answer
Next ==
    \/ \E body \in Bodies : Post("p1", body) /\ UNCHANGED answers
    \/ \E response \in RootAnswers : RootFetch("p1", response) /\ UNCHANGED answers
    \/ \E response \in MapAnswers : MapFetch("p1", response) /\ UNCHANGED answers
    \/ \E response \in BodyAnswers("p1") : BodyFetch("p1", response) /\ UNCHANGED answers
    \/ Save("p1") /\ UNCHANGED answers
    \/ Tick /\ UNCHANGED answers

Spec == Init /\ [][Next]_vars

\* every fetch has a timeout, so every await of a handler ends
SpecFair == Spec /\ WF_vars(Next)

(***************************************************************************)
(* runFullDecompilation as one sequential run over a list of answers: the  *)
(* record a job builds when nothing else runs                              *)
(***************************************************************************)
RECURSIVE RunBodies(_, _, _)
RunBodies(r, i, ans) ==
    IF i > Len(r.bundles) \/ ans = <<>> THEN r
    ELSE RunBodies(IF r.bundles[i].type = "js"
                   THEN downloadAndDecompileJS(r, r.bundles[i], ans[1])
                   ELSE downloadAndDecompileCSS(r, r.bundles[i], ans[1]),
                   i + 1, Tail(ans))

RECURSIVE RunMaps(_, _, _)
RunMaps(r, i, ans) ==
    IF i = 0 THEN RunBodies(r, 1, ans)
    ELSE IF ans = <<>> THEN r
    ELSE RunMaps(trySourceMapRecovery(r, r.bundles[i], ans[1]),
                 NextJs(r.bundles, i + 1), Tail(ans))

RunAlone(body, t, ans) ==
    LET r0 == WebDecompiler(body.url, body.jobId, t)
    IN  IF ans = <<>> \/ ~ans[1].ok \/ cheerioThrows(ans[1].data) THEN r0
        ELSE LET r1 == analyzeHTML(r0, ans[1].data)
             IN  IF r1.bundles = <<>> THEN r1
                 ELSE RunMaps(r1, NextJs(r1.bundles, 1), Tail(ans))

(***************************************************************************)
(* Discovery alone, over every document of up to MaxTags tags              *)
(***************************************************************************)
DiscoveryAnswers == {Ok(200, d) : d \in DiscoveryDocs}

NextDiscover ==
    \/ \E body \in GoodBodies : Post("p1", body) /\ UNCHANGED answers
    \/ \E response \in DiscoveryAnswers : RootFetch("p1", response) /\ UNCHANGED answers

SpecDiscover == Init /\ [][NextDiscover]_vars

(***************************************************************************)
(* The extractors, over JS bodies of every declaration shape               *)
(***************************************************************************)
ExtractJsAnswers ==
    {Ok(200, js) : js \in {JsApp, JsxFunction("Header"), JsxFunction("header"),
                           JsLowerCall, JsArrow, JsClass}}
ExtractMapAnswers == {Failed, Ok(200, ParentMapText)}
ExtractBodyAnswers(p) ==
    IF pc[p] = "processBundles" /\ results[p].bundles[idx[p]].type = "css"
    THEN {Ok(200, CssText)} ELSE ExtractJsAnswers

\* history: the answer joins the list of answers the submission got
Answered(p, response) == answers' = [answers EXCEPT ![p] = Append(@, response)]

NextExtract ==
    \/ \E body \in GoodBodies : Post("p1", body) /\ UNCHANGED answers
    \/ \E d \in JobDocs : RootFetch("p1", Ok(200, d)) /\ Answered("p1", Ok(200, d))
    \/ \E response \in ExtractMapAnswers :
            MapFetch("p1", response) /\ Answered("p1", response)
    \/ \E response \in ExtractBodyAnswers("p1") :
            BodyFetch("p1", response) /\ Answered("p1", response)
    \/ Save("p1") /\ UNCHANGED answers

SpecExtract == Init /\ [][NextExtract]_vars

(***************************************************************************)
(* beautifyCSS, over every stylesheet of up to MaxCssLen tokens            *)
(***************************************************************************)
CssTokens == {"x", "{", "}", ";", ",", " ", "\n"}
CssTexts == SeqsUpTo(CssTokens, MaxCssLen)

NextCss ==
    \/ \E body \in GoodBodies : Post("p1", body) /\ UNCHANGED answers
    \/ RootFetch("p1", Ok(200, StyleLink(RefS))) /\ UNCHANGED answers
    \/ \E css \in CssTexts : BodyFetch("p1", Ok(200, css)) /\ UNCHANGED answers
    \/ Save("p1") /\ UNCHANGED answers

SpecCss == Init /\ [][NextCss]_vars

(***************************************************************************)
(* The registry with all its operations: jobs saving, delete and clear     *)
(***************************************************************************)
\* jobStorage.delete of a stored id (of an absent id it changes nothing)
Delete(jobId) ==
    /\ storage[jobId] # None
    /\ storage' = delete(storage, jobId)
    /\ saves' = Append(saves, <<"delete", jobId>>)
    /\ UNCHANGED <<now, pc, req, results, idx, resp, trace, answer>>

\* jobStorage.clear of a registry that holds a record
Clear ==
    /\ \E j \in JobIds : storage[j] # None
    /\ storage' = clear(storage)
    /\ saves' = Append(saves, <<"clear", "">>)
    /\ UNCHANGED <<now, pc, req, results, idx, resp, trace, answer>>

NextRegistry ==
    \/ \E p \in Procs : \E body \in GoodBodies : Post(p, body) /\ UNCHANGED answers
    \/ \E p \in Procs : RootFetch(p, Ok(200, ScriptTag(RefA))) /\ UNCHANGED answers
    \/ \E p \in Procs : MapFetch(p, Failed) /\ UNCHANGED answers
    \/ \E p \in Procs : \E response \in {Failed, Ok(200, JsPlain)} :
            BodyFetch(p, response) /\ UNCHANGED answers
    \/ \E p \in Procs : Save(p) /\ UNCHANGED answers
    \/ Tick /\ UNCHANGED answers
    \/ \E j \in JobIds : Delete(j) /\ UNCHANGED answers
    \/ Clear /\ UNCHANGED answers

SpecRegistry == Init /\ [][NextRegistry]_vars

(***************************************************************************)
(* Two submissions whose handlers interleave at every await                *)
(***************************************************************************)
ConcRootAnswers ==
    {Failed, Ok(200, Flatten(<<ScriptTag(RefA)>>)),
     Ok(200, Flatten(<<StyleLink(RefS), ScriptTag(RefA)>>))}
ConcMapAnswers == {Failed, Ok(200, ValidMapText)}
ConcBodyAnswers(p) ==
    IF pc[p] = "processBundles" /\ results[p].bundles[idx[p]].type = "css"
    THEN {Failed, Ok(200, CssText)} ELSE {Failed, Ok(200, JsApp)}

NextConc ==
    \E p \in Procs :
        \/ \E body \in GoodBodies : Post(p, body) /\ UNCHANGED answers
        \/ \E response \in ConcRootAnswers : RootFetch(p, response) /\ Answered(p, response)
        \/ \E response \in ConcMapAnswers : MapFetch(p, response) /\ Answered(p, response)
        \/ \E response \in ConcBodyAnswers(p) : BodyFetch(p, response) /\ Answered(p, response)
        \/ Save(p) /\ UNCHANGED answers

SpecConc == Init /\ [][NextConc]_vars

(***************************************************************************)
(* Properties                                                              *)
(***************************************************************************)
Submitted(p) == pc[p] # "idle"
Stepped(p) == trace'[p] # trace[p]
LastFetch(p) == trace[p][Len(trace[p])]
SavedBy(p) == \E i \in 1..Len(saves) : saves[i][1] = p
SavedUnder(j) == \E i \in 1..Len(saves) : saves[i][2] = j
Succeeded(p) == pc[p] = "responded" /\ resp[p].status = 200

\* the root document was fetched and discovery failed fatally: the fetch failed,
\* the document did not parse, or it holds no bundle
DiscoveryFatal(p) ==
    /\ Len(trace[p]) = 1
    /\ \/ ~answer[p].ok
       \/ ~IsString(answer[p].data)
       \/ results[p].bundles = <<>>

\* C1: a job whose discovery fails fatally returns an error to the caller, never
\* writes to the registry, and leaves no entry under its job id unless another
\* submission stored one.
C1_FatalDiscoveryStoresNothing ==
    \A p \in Procs :
        DiscoveryFatal(p) =>
            /\ pc[p] = "responded"
            /\ resp[p].status = 500
            /\ resp[p].error = "Decompilation failed"
            /\ resp[p].details \in {"Failed to analyze HTML structure",
                                    "No bundles found to decompile"}
            /\ ~SavedBy(p)
            /\ ~SavedUnder(req[p].jobId) => get(storage, req[p].jobId) = None

C1_Witness ==
    /\ DiscoveryFatal("p1")
    /\ answer["p1"].ok
    /\ "index.html" \in DOMAIN results["p1"].originalFiles
    /\ resp["p1"].details = "No bundles found to decompile"
    /\ get(storage, req["p1"].jobId) = None

\* the step in which the body fetch of the bundle at idx[p] fails
BodyFetchFails(p) == pc[p] = "processBundles" /\ Stepped(p) /\ ~answer'[p].ok

AllBodiesFetched(p) ==
    \A i \in 1..Len(results[p].bundles) :
        \E k \in 1..Len(trace[p]) : trace[p][k].kind = "body" /\ trace[p][k].idx = i

\* C2: a step in which a bundle's body retrieval fails leaves the whole result
\* record unchanged, the job goes on to the next bundle (or to the hand-off), and
\* a job that has fetched a body ends in success with every bundle attempted.
C2_FailedRetrievalChangesNothing ==
    /\ [][\A p \in Procs :
            BodyFetchFails(p) =>
                /\ results'[p] = results[p]
                /\ pc'[p] = IF idx[p] = Len(results[p].bundles)
                            THEN "save" ELSE "processBundles"
                /\ idx[p] < Len(results[p].bundles) => idx'[p] = idx[p] + 1]_vars
    /\ [](\A p \in Procs :
            (pc[p] = "responded" /\ trace[p] # <<>> /\ LastFetch(p).kind = "body") =>
                Succeeded(p) /\ AllBodiesFetched(p))

\* one script tag whose body fetch fails: success, one bundle, nothing recorded for it
C2_Witness ==
    /\ Succeeded("p1")
    /\ Len(results["p1"].bundles) = 1
    /\ results["p1"].bundles[1].type = "js"
    /\ ~LastFetch("p1").ok
    /\ DOMAIN results["p1"].originalFiles = {"index.html"}
    /\ DOMAIN results["p1"].beautifiedFiles = {}
    /\ results["p1"].analysis.jsFiles = 0
    /\ get(storage, req["p1"].jobId) # None

\* the root document arrived, parsed, and holds at least one bundle
Discovered(p) == trace[p] # <<>> /\ trace[p][1].ok /\ results[p].bundles # <<>>

SameButTimestamp(a, b) ==
    /\ a # None
    /\ b # None
    /\ [a EXCEPT !.timestamp = 0] = [b EXCEPT !.timestamp = 0]

Completed(p) ==
    /\ Succeeded(p)
    /\ SavedBy(p)
    /\ AllBodiesFetched(p)

\* C3: once discovery has succeeded with at least one bundle, the caller never
\* gets an error, whatever the later fetches answer; the job's only response is
\* the success sent after its result was saved, and the job gets there.
C3_NoFailureAfterDiscovery ==
    /\ [](\A p \in Procs :
            Discovered(p) =>
                /\ resp[p].status \in {0, 200}
                /\ pc[p] \in {"sourceMap", "processBundles", "save", "responded"}
                /\ pc[p] = "responded" => Completed(p))
    /\ [][\A p \in Procs :
            (Discovered(p) /\ pc[p] = "save" /\ pc'[p] = "responded") =>
                SameButTimestamp(get(storage', req[p].jobId), results[p])]_vars
    /\ \A p \in Procs : Discovered(p) ~> Completed(p)

\* success although a source-map fetch and a body fetch failed on the way
C3_Witness ==
    /\ Completed("p1")
    /\ Len(results["p1"].bundles) = 2
    /\ \E k \in 1..Len(trace["p1"]) : trace["p1"][k].kind = "map" /\ ~trace["p1"][k].ok
    /\ \E k \in 1..Len(trace["p1"]) : trace["p1"][k].kind = "body" /\ ~trace["p1"][k].ok
    /\ results["p1"].analysis.jsFiles + results["p1"].analysis.cssFiles = 1

\* the step in which the body of the JS bundle at idx[p] arrives
JsBodyArrives(p) ==
    /\ pc[p] = "processBundles"
    /\ Stepped(p)
    /\ results[p].bundles[idx[p]].type = "js"
    /\ answer'[p].ok

OnlyEntryWritten(before, after, key) ==
    /\ DOMAIN after = DOMAIN before \cup {key}
    /\ \A k \in DOMAIN before \ {key} : after[k] = before[k]

\* C4: when a retrieved JS bundle fails beautification, the step stores the
\* original text under raw_<filename>, writes no beautified_<filename> entry,
\* records the original, and changes no list and no counter; when it succeeds
\* the step writes beautified_<filename>, no raw_<filename>, and counts the file.
C4_RawFallback ==
    [][\A p \in Procs :
        JsBodyArrives(p) =>
            LET fn == results[p].bundles[idx[p]].filename
                data == answer'[p].data
                old == results[p]
                new == results'[p]
            IN  /\ new.originalFiles[fn] = data
                /\ IF beautifyThrows(data)
                   THEN /\ OnlyEntryWritten(old.beautifiedFiles, new.beautifiedFiles,
                                            "raw_" \o fn)
                        /\ new.beautifiedFiles["raw_" \o fn] = data
                        /\ new.components = old.components
                        /\ new.modules = old.modules
                        /\ new.analysis = old.analysis
                   ELSE /\ OnlyEntryWritten(old.beautifiedFiles, new.beautifiedFiles,
                                            "beautified_" \o fn)
                        /\ new.beautifiedFiles["beautified_" \o fn] = beautify(data)
                        /\ new.analysis.jsFiles = old.analysis.jsFiles + 1]_vars

\* a job in which one body failed beautification after one that beautified
C4_Witness ==
    /\ pc["p1"] = "save"
    /\ DOMAIN results["p1"].beautifiedFiles = {"beautified_a.js", "raw_a.js"}
    /\ results["p1"].beautifiedFiles["raw_a.js"] = JsonObject
    /\ results["p1"].originalFiles["a.js"] = JsonObject
    /\ results["p1"].analysis.jsFiles = 1
    /\ Len(results["p1"].components) = 1

CountersMatchLists(r) ==
    /\ r.analysis.components = Len(r.components)
    /\ r.analysis.modules = Len(r.modules)

\* C5: when runFullDecompilation returns, and in every stored record,
\* analysis.components is the length of components and analysis.modules the
\* length of modules.
C5_CountersEqualLengths ==
    /\ \A p \in Procs : pc[p] = "save" => CountersMatchLists(results[p])
    /\ \A j \in JobIds : storage[j] # None => CountersMatchLists(storage[j])

\* a hand-off after two bundles with a component and a module each
C5_Witness ==
    /\ pc["p1"] = "save"
    /\ Len(results["p1"].components) = 2
    /\ Len(results["p1"].modules) = 2
    /\ results["p1"].analysis.jsFiles = 2

\* the fetches of a whole job, in the order of runFullDecompilation
RECURSIVE MapFetches(_, _)
MapFetches(bundles, i) ==
    IF i > Len(bundles) THEN <<>>
    ELSE (IF bundles[i].type = "js" THEN <<[kind |-> "map", idx |-> i]>> ELSE <<>>)
            \o MapFetches(bundles, i + 1)

ExpectedFetches(bundles) ==
    <<[kind |-> "root", idx |-> 0]>> \o MapFetches(bundles, 1)
        \o [i \in 1..Len(bundles) |-> [kind |-> "body", idx |-> i]]

FetchOrder(p) == [k \in 1..Len(trace[p]) |-> [kind |-> trace[p][k].kind, idx |-> trace[p][k].idx]]

IsPrefix(a, b) == Len(a) <= Len(b) /\ a = SubSeq(b, 1, Len(a))

Rank(state) ==
    CASE state = "idle" -> 0
      [] state = "analyzeHTML" -> 1
      [] state = "sourceMap" -> 2
      [] state = "processBundles" -> 3
      [] state = "save" -> 4
      [] state = "responded" -> 5

\* C6: the fetches of a job are a prefix of: the root document, then one .map
\* per JS bundle in list order, then one body per bundle in list order; the
\* result is handed off only when that list is complete; no job steps back to
\* an earlier stage and the bundle list never changes after discovery.
C6_StrictStageOrder ==
    /\ [](\A p \in Procs :
            /\ ~Discovered(p) => Len(trace[p]) <= 1 /\ ~SavedBy(p) /\ pc[p] # "save"
            /\ Discovered(p) =>
                /\ IsPrefix(FetchOrder(p), ExpectedFetches(results[p].bundles))
                /\ (pc[p] = "save" \/ SavedBy(p)) =>
                        FetchOrder(p) = ExpectedFetches(results[p].bundles)
                /\ pc[p] = "sourceMap" => \A k \in 1..Len(trace[p]) : trace[p][k].kind # "body"
                /\ pc[p] = "processBundles" =>
                        Len(trace[p]) >= Len(MapFetches(results[p].bundles, 1)) + 1)
    /\ [][\A p \in Procs :
            /\ Rank(pc'[p]) >= Rank(pc[p])
            /\ Discovered(p) => results'[p].bundles = results[p].bundles]_vars

\* a job handed off after a stylesheet and a script, bodies fetched in list order
C6_Witness ==
    /\ pc["p1"] = "save"
    /\ Len(results["p1"].bundles) = 2
    /\ results["p1"].bundles[2].type = "css"
    /\ FetchOrder("p1") = <<[kind |-> "root", idx |-> 0], [kind |-> "map", idx |-> 1],
                            [kind |-> "body", idx |-> 1], [kind |-> "body", idx |-> 2]>>

Count(p, kind, i) ==
    Cardinality({k \in 1..Len(trace[p]) : trace[p][k].kind = kind /\ trace[p][k].idx = i})

\* C9: a job asks for the root document once, for the .map of each JS bundle at
\* most once and of no CSS bundle, and for the body of each bundle at most once;
\* a finished job that got past discovery has asked exactly once for each.
C9_NoRetries ==
    \A p \in Procs :
        /\ Count(p, "root", 0) = IF pc[p] \in {"idle", "analyzeHTML"} \/ trace[p] = <<>>
                                 THEN 0 ELSE 1
        /\ \A k \in 1..Len(trace[p]) :
                trace[p][k].kind # "root" => trace[p][k].idx \in 1..Len(results[p].bundles)
        /\ \A i \in 1..Len(results[p].bundles) :
                /\ Count(p, "map", i) <= 1
                /\ Count(p, "body", i) <= 1
                /\ results[p].bundles[i].type = "css" => Count(p, "map", i) = 0
                /\ (pc[p] \in {"save", "responded"} /\ Discovered(p)) =>
                        /\ Count(p, "body", i) = 1
                        /\ results[p].bundles[i].type = "js" => Count(p, "map", i) = 1

\* a finished job whose two .map fetches and two body fetches all failed
C9_Witness ==
    /\ Succeeded("p1")
    /\ Len(results["p1"].bundles) = 2
    /\ Len(trace["p1"]) = 5
    /\ \A k \in 2..5 : ~trace["p1"][k].ok

WritesUnder(j) == Cardinality({i \in 1..Len(saves) : saves[i][2] = j})

\* C7: every job id is written to the registry at most once, and a record
\* stored under a job id is never replaced afterwards.
C7_WrittenOnceNeverReplaced ==
    /\ [](\A j \in JobIds : WritesUnder(j) <= 1)
    /\ [][\A j \in JobIds : storage[j] # None => storage'[j] = storage[j]]_vars

OnlyJobUnderItsId(p) == \A q \in Procs \ {p} : req[q].jobId # req[p].jobId

\* C8: at every moment a job's result record is the one its own answers give
\* when the job runs alone; the record stored for a job whose id no other
\* submission carries is that record; and a registry entry changes only in the
\* save of a job that carries its id.
C8_JobsIndependent ==
    /\ [](\A p \in Procs :
            Submitted(p) =>
                /\ results[p] = RunAlone(req[p], results[p].timestamp, answers[p])
                /\ (Succeeded(p) /\ OnlyJobUnderItsId(p)) =>
                        SameButTimestamp(get(storage, req[p].jobId),
                                         RunAlone(req[p], 0, answers[p])))
    /\ [][\A j \in JobIds :
            storage'[j] # storage[j] =>
                \E p \in Procs :
                    pc[p] = "save" /\ pc'[p] = "responded" /\ req[p].jobId = j]_vars

\* both jobs stored, under different ids, different records, their fetches
\* having interleaved
C8_Witness ==
    /\ Succeeded("p1")
    /\ Succeeded("p2")
    /\ req["p1"].jobId # req["p2"].jobId
    /\ saves = <<<<"p2", req["p2"].jobId>>, <<"p1", req["p1"].jobId>>>>
    /\ Len(results["p1"].bundles) = 1
    /\ Len(results["p2"].bundles) = 2
    /\ Len(results["p1"].components) = 1
    /\ results["p2"].analysis.cssFiles = 1
    /\ results["p2"].analysis.jsFiles = 0

\* the bundles of a document listed tag by tag, in document order
RECURSIVE DocumentOrder(_, _)
DocumentOrder(els, baseUrl) ==
    IF els = <<>> THEN <<>>
    ELSE LET el == els[1]
             this == IF el[1] = "<script" /\ HasAttr(el, "src=")
                     THEN BundleOf(el, "src=", "js", "script.js", baseUrl)
                     ELSE IF /\ el[1] = "<link"
                             /\ HasAttr(el, "rel=")
                             /\ Attr(el, "rel=") = <<"stylesheet">>
                     THEN BundleOf(el, "href=", "css", "style.css", baseUrl)
                     ELSE <<>>
         IN  this \o DocumentOrder(Tail(els), baseUrl)

\* C10: discovery yields one entry per script tag with a source and per
\* stylesheet link with an href, in the order of the tags in the document.
C10_DocumentOrder ==
    \A p \in Procs :
        (trace[p] # <<>> /\ trace[p][1].ok) =>
            results[p].bundles =
                DocumentOrder(Elements(answer[p].data, <<>>), results[p].url)

\* the references analyzeHTML makes bundles of, in the order of its bundle list
RECURSIVE RefsOf(_, _)
RefsOf(els, attr) ==
    IF els = <<>> THEN <<>>
    ELSE (IF HasAttr(els[1], attr) /\ Attr(els[1], attr) # <<>>
          THEN <<Attr(els[1], attr)>> ELSE <<>>) \o RefsOf(Tail(els), attr)

BundleRefs(doc) ==
    LET els == Elements(doc, <<>>)
    IN  RefsOf(SelectScripts(els), "src=") \o RefsOf(SelectStylesheets(els), "href=")

RootParsed(p) == trace[p] # <<>> /\ trace[p][1].ok /\ IsString(answer[p].data)

\* standard URL resolution (RFC 3986, section 5.2) of a reference against a base
DirOf(path) ==
    LET slashes == {k \in 1..Len(path) : path[k] = "/"}
    IN  IF slashes = {} THEN <<>>
        ELSE SubSeq(path, 1, CHOOSE k \in slashes : \A m \in slashes : m <= k)

RECURSIVE RemoveDotSegments(_, _)
RemoveDotSegments(in, out) ==
    IF in = <<>> THEN out
    ELSE LET rest == IF Len(in) >= 2 /\ in[2] = "/" THEN SubSeq(in, 3, Len(in)) ELSE Tail(in)
         IN  IF in[1] = "." THEN RemoveDotSegments(rest, out)
             ELSE IF in[1] = ".."
             THEN RemoveDotSegments(rest,
                    IF Len(out) <= 1 THEN out ELSE DirOf(SubSeq(out, 1, Len(out) - 1)))
             ELSE RemoveDotSegments(Tail(in), Append(out, in[1]))

IsRelative(ref) == ref # <<>> /\ ref[1] # Origin

StandardResolve(ref, base) ==
    IF Len(ref) >= 2 /\ ref[1] = "/" /\ ref[2] = "/" THEN "https:" \o Str(ref)
    ELSE IF ref[1] = "/" THEN base[1] \o Str(RemoveDotSegments(ref, <<>>))
    ELSE base[1] \o Str(RemoveDotSegments(DirOf(Tail(base)) \o ref, <<>>))

\* C11: the url of the bundle made of a relative reference, root-relative or
\* document-relative, is the absolute URL that standard resolution of the
\* reference against the root URL gives.
C11_RelativeRefsResolved ==
    \A p \in Procs :
        RootParsed(p) =>
            LET refs == BundleRefs(answer[p].data)
                b == results[p].bundles
            IN  /\ Len(b) = Len(refs)
                /\ \A i \in 1..Len(refs) :
                        IsRelative(refs[i]) =>
                            b[i].url = StandardResolve(refs[i], results[p].url)

\* the path of a reference: what precedes its query
RECURSIVE PathPart(_)
PathPart(ref) ==
    IF ref = <<>> \/ ref[1] = "?" THEN <<>> ELSE <<ref[1]>> \o PathPart(Tail(ref))

Placeholder(type) == IF type = "js" THEN "script.js" ELSE "style.css"

\* C12: the filename of a bundle is the final path segment of its reference,
\* and the placeholder of its kind when the reference has no path segment (a
\* bare query string, a reference that ends in "/").
C12_FilenameIsLastSegment ==
    \A p \in Procs :
        RootParsed(p) =>
            LET refs == BundleRefs(answer[p].data)
                b == results[p].bundles
            IN  /\ Len(b) = Len(refs)
                /\ \A i \in 1..Len(refs) :
                        LET segment == Str(LastSegment(PathPart(refs[i])))
                        IN  b[i].filename =
                                IF segment = "" THEN Placeholder(b[i].type) ELSE segment

\* a .map answer that trySourceMapRecovery can recover sources from
UsableMap(response) ==
    /\ response.ok
    /\ response.status = 200
    /\ ~jsonParseThrows(response.data)
    /\ jsonParse(response.data).hasSources
    /\ jsonParse(response.data).hasContent

\* the job of p went: a root document with one script tag and one stylesheet
\* link, no usable source map, a JS body that beautifies and holds one component
\* match, a CSS body that is text
OneScriptOneStylesheet(p) ==
    LET a == answers[p]
        els == Elements(a[1].data, <<>>)
        b == results[p].bundles
    IN  /\ Len(a) = 4
        /\ a[1].ok
        /\ Len(SelectScripts(els)) = 1
        /\ Len(SelectStylesheets(els)) = 1
        /\ Len(b) = 2
        /\ ~UsableMap(a[2])
        /\ \A i \in 1..2 :
                /\ a[2 + i].ok
                /\ IsString(a[2 + i].data)
                /\ b[i].type = "js" =>
                        Len(AllMatches(ComponentPatterns, beautify(a[2 + i].data))) = 1

ScenarioCounts(r) ==
    /\ DOMAIN r.originalFiles = {"index.html", r.bundles[1].filename, r.bundles[2].filename}
    /\ Cardinality(DOMAIN r.originalFiles) = 3
    /\ Cardinality(DOMAIN r.beautifiedFiles) = 2
    /\ r.analysis.jsFiles = 1
    /\ r.analysis.cssFiles = 1
    /\ r.analysis.components = 1

\* C13: a job with one script tag and one stylesheet link, both retrieved, no
\* source map, the JS bundle beautified with one component match, hands off a
\* result with 3 originalFiles entries (index.html and the two bundles), 2
\* beautifiedFiles entries, jsFiles = 1, cssFiles = 1 and components = 1, and
\* that is the record stored for it.
C13_EndToEndCounts ==
    \A p \in Procs :
        (pc[p] \in {"save", "responded"} /\ OneScriptOneStylesheet(p)) =>
            /\ ScenarioCounts(results[p])
            /\ (Succeeded(p) /\ OnlyJobUnderItsId(p)) =>
                    ScenarioCounts(get(storage, req[p].jobId))

C13_Witness ==
    /\ Succeeded("p1")
    /\ OneScriptOneStylesheet("p1")
    /\ OnlyJobUnderItsId("p1")
    /\ DOMAIN results["p1"].originalFiles = {"index.html", "a.js", "s.css"}
    /\ DOMAIN get(storage, req["p1"].jobId).beautifiedFiles
            = {"beautified_a.js", "beautified_s.css"}

\* a prefix taken off a path when the path starts with it
StripLeading(path, prefix) ==
    IF Len(path) >= Len(prefix) /\ SubSeq(path, 1, Len(prefix)) = prefix
    THEN SubSeq(path, Len(prefix) + 1, Len(path)) ELSE path

RecoveredKey(sourcePath) ==
    "source_" \o Str(LastSegment(
        StripLeading(StripLeading(StripLeading(sourcePath, <<"webpack:", "/", "/">>),
                                  <<".", ".", "/">>), <<".", "/">>)))

\* the step in which the .map of the JS bundle at idx[p] arrives with status 200
\* and holds a source map with both arrays
ValidMapArrives(p) ==
    /\ pc[p] = "sourceMap"
    /\ Stepped(p)
    /\ answer'[p].ok
    /\ answer'[p].status = 200
    /\ answer'[p].data \in DOMAIN MapServed
    /\ MapServed[answer'[p].data].hasSources
    /\ MapServed[answer'[p].data].hasContent

\* C14: when a valid source map arrives, every index with a source path and
\* non-empty content gets an originalFiles entry keyed source_<last segment of
\* the path without webpack://, a leading ../ and a leading ./>, holding the
\* recovery header (bundle URL, original path) followed by the content.
C14_RecoveredSources ==
    [][\A p \in Procs :
        ValidMapArrives(p) =>
            LET m == MapServed[answer'[p].data]
                url == results[p].bundles[idx[p]].url
                files == results'[p].originalFiles
            IN  \A i \in 1..Len(m.sources) :
                    (/\ i <= Len(m.sourcesContent)
                     /\ m.sources[i] # <<>>
                     /\ m.sourcesContent[i] # <<>>) =>
                        /\ RecoveredKey(m.sources[i]) \in DOMAIN files
                        /\ files[RecoveredKey(m.sources[i])] =
                                RecoveryHeader(url, m.sources[i]) \o m.sourcesContent[i]]_vars

\* a function declaration named name whose body returns a fragment that opens
\* with a tag
JsxFunctionPattern(name) ==
    << [cap |-> 3, items |-> <<Lit("function"), Plus("ws"), Lit(name), Star("ws"),
         Lit("("), StarNot(")"), Lit(")"), Star("ws"), Lit("{"), StarNot("}"),
         Lit("return"), Star("ws"), Lit("<"), StarNot("}"), Lit("}")>>] >>

DeclaresJsxFunction(text, name) == ExecAll(JsxFunctionPattern(name), text, 1) # <<>>

\* the step in which a JS body arrives and beautifies
JsBodyBeautified(p) == JsBodyArrives(p) /\ ~beautifyThrows(answer'[p].data)

\* C15: extraction over a beautified text that declares a function Header
\* returning a JSX fragment records a component named Header; over the same
\* text with the function named header it records none; and every recorded
\* component has a name that starts with an uppercase letter.
C15_HeaderRecognised ==
    [][\A p \in Procs :
        JsBodyBeautified(p) =>
            LET text == beautify(answer'[p].data)
                old == results[p].components
                new == results'[p].components
            IN  /\ DeclaresJsxFunction(text, "Header") =>
                        \E k \in (Len(old) + 1)..Len(new) : new[k].name = "Header"
                /\ (DeclaresJsxFunction(text, "header")
                        /\ ~DeclaresJsxFunction(text, "Header")) => new = old
                /\ \A k \in 1..Len(new) : new[k].name \in UpperIdents]_vars

\* a text with every run of white space shortened to one space
RECURSIVE Shape(_)
Shape(toks) ==
    IF toks = <<>> THEN <<>>
    ELSE IF IsWs(toks[1])
    THEN <<" ">> \o Shape(SubSeq(toks, WsRun(toks, 1) + 1, Len(toks)))
    ELSE <<toks[1]>> \o Shape(Tail(toks))

\* no blank line, no white space at either end
Tidy(toks) ==
    /\ \A i \in 1..Len(toks) : \A j \in (i + 1)..Len(toks) :
            (toks[i] = "\n" /\ toks[j] = "\n") => \E k \in (i + 1)..(j - 1) : ~IsWs(toks[k])
    /\ toks # <<>> => ~IsWs(toks[1]) /\ ~IsWs(toks[Len(toks)])

\* C16: beautifying a beautified stylesheet again keeps its non-white-space
\* content and the places of its white-space runs (only their lengths may
\* change), and both texts have no blank line and no white space at either end.
C16_CssBeautifyIdempotent ==
    \A p \in Procs : \A i \in 1..Len(results[p].bundles) :
        LET fn == results[p].bundles[i].filename
            key == "beautified_" \o fn
        IN  (results[p].bundles[i].type = "css" /\ key \in DOMAIN results[p].beautifiedFiles) =>
                LET once == results[p].beautifiedFiles[key]
                    twice == beautifyCSS(once)
                IN  /\ StripWs(once) = StripWs(results[p].originalFiles[fn])
                    /\ StripWs(twice) = StripWs(once)
                    /\ Shape(twice) = Shape(once)
                    /\ Tidy(once)
                    /\ Tidy(twice)

\* x{} beautified once and twice: the same text but for the run before the brace
C16_Witness ==
    /\ pc["p1"] = "save"
    /\ results["p1"].originalFiles["s.css"] = <<"x", "{", "}">>
    /\ results["p1"].beautifiedFiles["beautified_s.css"] = <<"x", " ", "{", "\n", "}">>
    /\ beautifyCSS(<<"x", " ", "{", "\n", "}">>) = <<"x", " ", " ", "{", "\n", "}">>

\* no JS text the job beautified holds a match of a component or module pattern
NoPatternInJob(p) ==
    \A k \in 1..Len(answers[p]) :
        (/\ trace[p][k].kind = "body"
         /\ results[p].bundles[trace[p][k].idx].type = "js"
         /\ answers[p][k].ok
         /\ ~beautifyThrows(answers[p][k].data)) =>
            LET text == beautify(answers[p][k].data)
            IN  /\ AllMatches(ComponentPatterns, text) = <<>>
                /\ AllMatches(ModulePatterns, text) = <<>>

NothingExtracted(r) ==
    /\ r.components = <<>>
    /\ r.modules = <<>>
    /\ r.analysis.components = 0
    /\ r.analysis.modules = 0

\* C17: a job none of whose beautified JS texts matches a component or module
\* pattern hands off, and stores, a result with empty components and modules
\* lists and both counters 0.
C17_NoPatternNothingExtracted ==
    \A p \in Procs :
        (pc[p] \in {"save", "responded"} /\ Discovered(p) /\ NoPatternInJob(p)) =>
            /\ NothingExtracted(results[p])
            /\ Succeeded(p) => NothingExtracted(get(storage, req[p].jobId))

\* a stored job that beautified two JS texts, neither with a match
C17_Witness ==
    /\ Succeeded("p1")
    /\ NoPatternInJob("p1")
    /\ results["p1"].analysis.jsFiles = 2
    /\ answers["p1"][Len(answers["p1"])].data = JsLowerCall
    /\ NothingExtracted(get(storage, req["p1"].jobId))

\* the bundles of p whose body retrieval succeeded
Retrieved(p) == {k \in 1..Len(trace[p]) : trace[p][k].kind = "body" /\ trace[p][k].ok}

\* the keys of a result's beautifiedFiles that start with beautified_
BeautifiedKeys(r) ==
    DOMAIN r.beautifiedFiles
        \cap {"beautified_" \o r.bundles[i].filename : i \in 1..Len(r.bundles)}

\* C18: at hand-off beautifiedFiles has as many entries as bundles whose body
\* was retrieved, and jsFiles + cssFiles is the number of its beautified_
\* entries, also when two bundles share a filename.
C18_OneEntryPerRetrievedBundle ==
    \A p \in Procs :
        (pc[p] \in {"save", "responded"} /\ Discovered(p)) =>
            /\ Cardinality(DOMAIN results[p].beautifiedFiles) = Cardinality(Retrieved(p))
            /\ results[p].analysis.jsFiles + results[p].analysis.cssFiles
                    = Cardinality(BeautifiedKeys(results[p]))

\* the step in which the .map attempt for the JS bundle at idx[p] ends without
\* a usable map
MapAttemptFails(p) == pc[p] = "sourceMap" /\ Stepped(p) /\ ~UsableMap(answer'[p])

\* C19: a source-map attempt that yields no usable map (failed fetch, status
\* other than 200, body that does not parse, sources or sourcesContent missing)
\* leaves the result record as it was and the job moves to the .map of the
\* next JS bundle, or to the bodies after the last; a job past the source-map
\* stage has attempted the .map of every JS bundle.
C19_UnusableMapChangesNothing ==
    /\ [][\A p \in Procs :
            MapAttemptFails(p) =>
                LET js == NextJs(results[p].bundles, idx[p] + 1)
                IN  /\ results'[p] = results[p]
                    /\ resp'[p] = resp[p]
                    /\ pc'[p] = IF js = 0 THEN "processBundles" ELSE "sourceMap"
                    /\ idx'[p] = IF js = 0 THEN 1 ELSE js]_vars
    /\ [](\A p \in Procs :
            (Discovered(p) /\ pc[p] \in {"processBundles", "save", "responded"}) =>
                \A i \in 1..Len(results[p].bundles) :
                    results[p].bundles[i].type = "js" => Count(p, "map", i) = 1)

\* two JS bundles: the first .map fetch failed, the second brought a map
\* without sourcesContent, and nothing was added
C19_Witness ==
    /\ pc["p1"] = "processBundles"
    /\ Len(results["p1"].bundles) = 2
    /\ Len(trace["p1"]) = 3
    /\ ~trace["p1"][2].ok
    /\ trace["p1"][3].kind = "map"
    /\ answer["p1"] = Ok(200, NoContentMapText)
    /\ DOMAIN results["p1"].originalFiles = {"index.html"}

\* a parsed request body without url, without jobId, or with a url that is no URL
Invalid(body) == body.json /\ (body.url = <<>> \/ body.jobId = "" \/ ~IsURL(body.url))

\* C20: a submission whose body lacks url or jobId, or whose url does not
\* parse, is answered 400 at once: it issues no fetch, no WebDecompiler is
\* constructed for it, and it writes nothing to the registry.
C20_InvalidSubmissionRejected ==
    /\ [](\A p \in Procs :
            (Submitted(p) /\ Invalid(req[p])) =>
                /\ pc[p] = "responded"
                /\ resp[p].status = 400
                /\ resp[p].error = IF req[p].url = <<>> \/ req[p].jobId = ""
                                   THEN "URL and jobId are required"
                                   ELSE "Invalid URL provided"
                /\ trace[p] = <<>>
                /\ results[p] = WebDecompiler(<<>>, "", 0)
                /\ ~SavedBy(p))
    /\ [][\A p \in Procs :
            (pc[p] = "idle" /\ pc'[p] # "idle" /\ Invalid(req'[p])) =>
                storage' = storage /\ saves' = saves]_vars

\* a submission with a job id and a url that does not parse, answered 400
C20_Witness ==
    /\ pc["p1"] = "responded"
    /\ req["p1"].url = BadUrl
    /\ req["p1"].jobId = "j1"
    /\ resp["p1"] = [status |-> 400, error |-> "Invalid URL provided", details |-> ""]
    /\ storage = [j \in JobIds |-> None]

\* C21: every file name the listing of a stored job enumerates (original,
\* beautified, component entries) is answered by the file-content request
\* with status 200 and that file's content, also when the content is empty.
C21_ListedFilesFetchable ==
    \A j \in JobIds :
        get(storage, j) # None =>
            \A f \in Listing(get(storage, j)) :
                LET a == FileContent(storage, j, f.name)
                IN  a.status = 200 /\ a.content = f.content

\* the registry operations so far that concern job id j
OpsOn(j) == {i \in 1..Len(saves) : saves[i][2] = j \/ saves[i][1] = "clear"}
LastOpOn(j) == saves[CHOOSE i \in OpsOn(j) : \A k \in OpsOn(j) : k <= i]

\* C22: a save stores under the job id the record it was given with the
\* timestamp replaced by the time of the save; get returns the record saved
\* last, equal to the saver's result in every field but timestamp; and get
\* of an id never saved, or deleted or cleared since, returns absent.
C22_SaveThenGet ==
    /\ [][\A p \in Procs :
            (pc[p] = "save" /\ pc'[p] = "responded") =>
                get(storage', req[p].jobId) = [results[p] EXCEPT !.timestamp = now]]_vars
    /\ [](\A j \in JobIds :
            IF OpsOn(j) = {} \/ LastOpOn(j)[1] \in {"delete", "clear"}
            THEN get(storage, j) = None
            ELSE /\ SameButTimestamp(get(storage, j), results[LastOpOn(j)[1]])
                 /\ get(storage, j).timestamp >= results[LastOpOn(j)[1]].timestamp
                 /\ get(storage, j).timestamp <= now)

\* j1 saved and then deleted; j2 stored with the time of its save, later than
\* the time its job was created
C22_Witness ==
    /\ \E i \in 1..Len(saves) : saves[i] = <<"p1", "j1">>
    /\ LastOpOn("j1") = <<"delete", "j1">>
    /\ get(storage, "j1") = None
    /\ req["p2"].jobId = "j2"
    /\ results["p2"].timestamp = 0
    /\ get(storage, "j2") # None
    /\ get(storage, "j2").timestamp = 1
    /\ SameButTimestamp(get(storage, "j2"), results["p2"])

====
